---- MODULE Spec2Model ----
(***************************************************************************)
(* Model of the markdown <-> Word converter:                               *)
(*   - resolveImage, the asset lookup of convertToDocx (docxConverter),    *)
(*   - the token loop of convertToDocx,                                    *)
(*   - convertDocxToMd (mdConverter) with its image callback and its       *)
(*     post-processing.                                                    *)
(* Strings are sequences of one-character strings.                         *)
(***************************************************************************)
EXTENDS Integers, Sequences, FiniteSets, TLC

VARIABLES
  images,       \* resolver: the Map<string, ArrayBuffer> given to convertToDocx
  href,         \* resolver: the argument of the last resolveImage call
  imgData,      \* resolver: what the call returned
  matchedStep,  \* resolver: the return statement the call left through (0: the last one)
  rpc,          \* resolver: "idle" before the call, "resolved" after it
  variant,      \* compiler: which of the two convertToDocx of docxConverter runs
  tokens,       \* compiler: marked.lexer(markdown)
  ti,           \* compiler: index of the token the for..of loop is at
  sections,     \* compiler: the blocks pushed so far
  logs,         \* compiler: the onLog calls so far, in call order
  cpc,          \* compiler: "start", "loop", "packing", "returned", "threw"
  outcome,      \* compiler: what the promise of convertToDocx settled with
  docx,         \* extractor: per call, the Word document behind its arrayBuffer
  epc,          \* extractor: per call, "idle", "decoding", "returned", "threw"
  imageCounter, \* extractor: per call, the let imageCounter of its closure
  issued,       \* extractor: per call, the ids its convertImage callback returned
  elogs,        \* extractor: per call, the onLog calls it made, in call order
  rejection,    \* extractor: per call, the reason mammoth rejected with
  eout,         \* extractor: per call, what the promise of convertDocxToMd settled with
  mode,         \* App: useState mode
  sourceFile,   \* App: useState sourceFile
  isAiEnabled,  \* App: useState isAiEnabled
  status,       \* App: useState status
  appLogs,      \* App: useState logs
  lastOutput,   \* App: useState lastOutput
  downloads,    \* App: what downloadFile was called with, in call order
  reader,       \* App: the FileReader of handleFileUpload that has not fired onload
  imgReaders,   \* App: the FileReaders of handleImageUpload that have not fired onload
  conversions,  \* App: per startConversion call, its closure and where it is suspended
  events        \* App: number of user events so far

resolveVars == <<href, imgData, matchedStep, rpc>>

compileVars == <<variant, tokens, ti, sections, logs, cpc, outcome>>

extractVars == <<docx, epc, imageCounter, issued, elogs, rejection, eout>>

appVars ==
  <<mode, sourceFile, isAiEnabled, status, appLogs, lastOutput, downloads, reader,
    imgReaders, conversions, events>>

vars == <<images, resolveVars, compileVars, extractVars, appVars>>

-----------------------------------------------------------------------------
(* Bounds *)

MaxHrefLen == 4
MaxAssets == 2
MaxTokens == 2
MaxChildren == 3
MaxDepth == 6
MaxCodeLen == 4
MaxItems == 3
MaxCalls == 2
MaxImages == 2
MaxElems == 4
MaxEvents == 3

-----------------------------------------------------------------------------
(* Strings *)

Chars == {".", "/", "a"}

RECURSIVE StrsOfLen(_)
StrsOfLen(n) ==
  IF n = 0 THEN {<<>>}
  ELSE {Append(s, c) : s \in StrsOfLen(n - 1), c \in Chars}

StrsUpTo(n) == UNION {StrsOfLen(k) : k \in 0..n}

\* String.prototype.endsWith
EndsWith(s, suf) ==
  /\ Len(suf) <= Len(s)
  /\ SubSeq(s, Len(s) - Len(suf) + 1, Len(s)) = suf

Drop(s, n) == SubSeq(s, n + 1, Len(s))

-----------------------------------------------------------------------------
(* The asset map: a JS Map, i.e. key/value entries in insertion order *)

Undefined == <<"undefined">>

\* an async call that has not settled
Pending == [kind |-> "pending", of |-> <<>>]

\* the ArrayBuffer stored under a key: every entry holds its own buffer object
BlobOf(k) == <<"blob", k>>

Has(m, k) == \E i \in 1..Len(m) : m[i].key = k

Get(m, k) ==
  IF Has(m, k) THEN m[CHOOSE i \in 1..Len(m) : m[i].key = k].val ELSE Undefined

\* href.replace(/^\.?\//, '')
Normalized(h) ==
  IF Len(h) >= 1 /\ h[1] = "/" THEN Drop(h, 1)
  ELSE IF Len(h) >= 2 /\ h[1] = "." /\ h[2] = "/" THEN Drop(h, 2)
  ELSE h

\* href.split('/').pop() || ''
RECURSIVE FileName(_)
FileName(h) ==
  IF Len(h) = 0 THEN <<>>
  ELSE IF h[Len(h)] = "/" THEN <<>>
  ELSE Append(FileName(SubSeq(h, 1, Len(h) - 1)), h[Len(h)])

\* the for..of loop of step 4: the first entry, in insertion order, whose key
\* ends with href or with the normalized href
DeepSearchHits(m, h) ==
  {i \in 1..Len(m) : EndsWith(m[i].key, h) \/ EndsWith(m[i].key, Normalized(h))}

Min(S) == CHOOSE x \in S : \A y \in S : x <= y

ResolveSwappedFallbacks(m, h) ==
  IF Has(m, h) THEN [val |-> Get(m, h), step |-> 1]
  ELSE IF Has(m, FileName(h)) THEN [val |-> Get(m, FileName(h)), step |-> 3]
  ELSE IF Has(m, Normalized(h)) THEN [val |-> Get(m, Normalized(h)), step |-> 2]
  ELSE IF DeepSearchHits(m, h) # {}
    THEN [val |-> m[Min(DeepSearchHits(m, h))].val, step |-> 4]
  ELSE [val |-> Undefined, step |-> 0]

ResolveWithoutDeepSearch(m, h) ==
  IF Has(m, h) THEN [val |-> Get(m, h), step |-> 1]
  ELSE IF Has(m, Normalized(h)) THEN [val |-> Get(m, Normalized(h)), step |-> 2]
  ELSE IF Has(m, FileName(h)) THEN [val |-> Get(m, FileName(h)), step |-> 3]
  ELSE [val |-> Undefined, step |-> 0]

ResolveLastSuffixMatch(m, h) ==
  IF Has(m, h) THEN [val |-> Get(m, h), step |-> 1]
  ELSE IF Has(m, Normalized(h)) THEN [val |-> Get(m, Normalized(h)), step |-> 2]
  ELSE IF Has(m, FileName(h)) THEN [val |-> Get(m, FileName(h)), step |-> 3]
  ELSE IF DeepSearchHits(m, h) # {}
    THEN [val |-> m[CHOOSE i \in DeepSearchHits(m, h) :
                      \A j \in DeepSearchHits(m, h) : i >= j].val,
          step |-> 4]
  ELSE [val |-> Undefined, step |-> 0]

\* resolveImage: the value returned and the step that returned it
resolveImage(m, h) ==
  IF Has(m, h) THEN [val |-> Get(m, h), step |-> 1]
  ELSE IF Has(m, Normalized(h)) THEN [val |-> Get(m, Normalized(h)), step |-> 2]
  ELSE IF Has(m, FileName(h)) THEN [val |-> Get(m, FileName(h)), step |-> 3]
  ELSE IF DeepSearchHits(m, h) # {}
    THEN [val |-> m[Min(DeepSearchHits(m, h))].val, step |-> 4]
  ELSE [val |-> Undefined, step |-> 0]

-----------------------------------------------------------------------------
(* Inputs of the resolver *)

Hrefs == StrsUpTo(MaxHrefLen)

\* keys as the upload handler stores them (file names, folder-relative paths)
\* and keys written the way a markdown reference may be written
Keys ==
  { <<"a">>, <<"a", "a">>, <<".", "a">>,
    <<"a", "/", "a">>, <<"a", "/", "a", "a">>, <<"a", "/", ".", "a">>,
    <<"/", "a">>, <<".", "/", "a">>, <<"/", "a", "/", "a">>,
    <<"a", "/", "a", "/", "a">> }

RECURSIVE MapsOfLen(_)
MapsOfLen(n) ==
  IF n = 0 THEN {<<>>}
  ELSE {Append(m, [key |-> k, val |-> BlobOf(k)]) :
          m \in MapsOfLen(n - 1), k \in Keys}

AssetMaps ==
  {m \in UNION {MapsOfLen(n) : n \in 0..MaxAssets} :
     \A i, j \in 1..Len(m) : i # j => m[i].key # m[j].key}

-----------------------------------------------------------------------------
(* Resolver specification *)

ResolverIdle ==
  /\ href = <<>>
  /\ imgData = Undefined
  /\ matchedStep = 0
  /\ rpc = "idle"

CompilerIdle ==
  /\ variant = "cascade"
  /\ tokens = <<>>
  /\ ti = 1
  /\ sections = <<>>
  /\ logs = <<>>
  /\ cpc = "off"
  /\ outcome = Pending

Calls == 1..MaxCalls

\* a call of convertDocxToMd that is not made
NoDoc == [present |-> FALSE, body |-> <<>>]

NoError == [kind |-> "none", message |-> <<>>]

\* an optional value: a field that is absent, or null, or set
Absent == [defined |-> FALSE, of |-> <<>>]

Given(x) == [defined |-> TRUE, of |-> x]

\* useState<FileData | null>(null)
NoSource == [present |-> FALSE, content |-> Absent, arrayBuffer |-> Absent]

\* a call of startConversion takes a click: no more calls than user events
Runs == 1..MaxEvents

\* a startConversion call that is not made
NoRun ==
  [pc |-> "unused", mode |-> "MD_TO_DOCX", ai |-> FALSE, source |-> NoSource,
   assets |-> <<>>, text |-> <<>>, issued |-> 0, steps |-> <<>>, settled |-> Pending,
   response |-> [kind |-> "none", text |-> Undefined, reason |-> NoError],
   caught |-> NoError, handed |-> Absent, final |-> "IDLE"]

\* lines 25-32: the state of App after the first render
AppIdle ==
  /\ mode = "MD_TO_DOCX"
  /\ sourceFile = NoSource
  /\ isAiEnabled = FALSE
  /\ status = "IDLE"
  /\ appLogs = <<>>
  /\ lastOutput = Absent
  /\ downloads = <<>>
  /\ reader = Absent
  /\ imgReaders = <<>>
  /\ conversions = [r \in Runs |-> NoRun]
  /\ events = 0

ExtractorIdle ==
  /\ docx = [c \in Calls |-> NoDoc]
  /\ epc = [c \in Calls |-> "idle"]
  /\ imageCounter = [c \in Calls |-> 0]
  /\ issued = [c \in Calls |-> <<>>]
  /\ elogs = [c \in Calls |-> <<>>]
  /\ rejection = [c \in Calls |-> NoError]
  /\ eout = [c \in Calls |-> Pending]

InitResolve ==
  /\ images \in AssetMaps
  /\ ResolverIdle
  /\ CompilerIdle
  /\ ExtractorIdle
  /\ AppIdle

CallResolveImage ==
  /\ rpc = "idle"
  /\ \E h \in Hrefs :
       /\ href' = h
       /\ imgData' = resolveImage(images, h).val
       /\ matchedStep' = resolveImage(images, h).step
  /\ rpc' = "resolved"
  /\ UNCHANGED <<images, appVars, compileVars, extractVars>>

NextResolve == CallResolveImage

SpecResolve == InitResolve /\ [][NextResolve]_vars

-----------------------------------------------------------------------------
(* Claims about the resolver *)

\* the position of the last "/" of s, 0 when it has none
LastSlash(s) ==
  IF \E i \in 1..Len(s) : s[i] = "/"
    THEN CHOOSE i \in 1..Len(s) : s[i] = "/" /\ \A j \in (i + 1)..Len(s) : s[j] # "/"
    ELSE 0

\* href without one leading "./" or "/"
StripLead(h) ==
  IF Len(h) >= 1 /\ Head(h) = "/" THEN Tail(h)
  ELSE IF Len(h) >= 2 /\ SubSeq(h, 1, 2) = <<".", "/">> THEN Tail(Tail(h))
  ELSE h

\* the entries the four resolution steps look for
StepEntries(n) ==
  CASE n = 1 -> {i \in 1..Len(images) : images[i].key = href}
    [] n = 2 -> {i \in 1..Len(images) : images[i].key = StripLead(href)}
    [] n = 3 -> {i \in 1..Len(images) :
                   images[i].key = SubSeq(href, LastSlash(href) + 1, Len(href))}
    [] n = 4 -> {i \in 1..Len(images) :
                   \E p \in 0..Len(images[i].key) :
                     \/ Drop(images[i].key, p) = href
                     \/ Drop(images[i].key, p) = StripLead(href)}

StepsMatching == {n \in 1..4 : StepEntries(n) # {}}

\* C1: resolveImage answers from the earliest of the four steps that has a
\* matching key (exact, normalized, basename, suffix scan), never from a later
\* one, and returns undefined only when no step has a matching key.
C1_Precedence ==
  rpc = "resolved" =>
    IF StepsMatching = {}
      THEN imgData = Undefined /\ matchedStep = 0
      ELSE /\ matchedStep = Min(StepsMatching)
           /\ imgData \in {images[i].val : i \in StepEntries(Min(StepsMatching))}

\* C1 witness: the normalized key and the basename key are both present, under
\* different entries, and the call answered from the normalized one.
C1_Witness ==
  /\ rpc = "resolved"
  /\ StepEntries(1) = {}
  /\ StepEntries(2) # {} /\ StepEntries(3) # {} /\ StepEntries(4) # {}
  /\ StepEntries(2) # StepEntries(3)
  /\ matchedStep = 2

\* a bare file name looked up in a map whose only key is a nested path ending
\* in "/" and that file name
BareNameAgainstNestedKey ==
  /\ rpc = "resolved"
  /\ Len(href) >= 1 /\ LastSlash(href) = 0
  /\ Len(images) = 1
  /\ images[1].key # href
  /\ Drop(images[1].key, LastSlash(images[1].key)) = href
  /\ LastSlash(images[1].key) > 1
  /\ images[1].key[1] \notin {".", "/"}

\* C2 as stated: a bare file name against a single nested key ending in it is
\* resolved, and by the basename step (3), not by the suffix scan (4).
C2_ResolvedByBasenameStep ==
  BareNameAgainstNestedKey => (imgData = images[1].val /\ matchedStep = 3)

\* C2 amended: a bare file name against a single nested key ending in it is
\* resolved to that key's blob, by the suffix scan (step 4): the basename of
\* href is href itself, which is no key of the map.
C2_ResolvedBySuffixScan ==
  BareNameAgainstNestedKey => (imgData = images[1].val /\ matchedStep = 4)

\* C2 witness: the lookup of a bare file name in such a map returned the blob.
C2_Witness ==
  BareNameAgainstNestedKey /\ imgData = images[1].val

\* the maps that hold the entries of m in any insertion order
Reorderings(m) ==
  {[i \in 1..Len(m) |-> m[f[i]]] :
     f \in {g \in [1..Len(m) -> 1..Len(m)] : \A i, j \in 1..Len(m) : i # j => g[i] # g[j]}}

\* the entries of m whose key ends with h or with h without its leading ./ or /
SuffixMatches(m, h) ==
  LET Ends(e) == EndsWith(e.key, h) \/ EndsWith(e.key, StripLead(h))
  IN SelectSeq(m, Ends)

\* no key of m is h, h without its leading ./ or /, or the last segment of h
StepsOneToThreeFail(m, h) ==
  \A i \in 1..Len(m) :
    /\ m[i].key # h
    /\ m[i].key # StripLead(h)
    /\ m[i].key # Drop(h, LastSlash(h))

\* C19: when no key is href, the normalized href or the basename, and some
\* keys end with href or the normalized href, the lookup returned the blob of
\* the first such key in insertion order; the same holds of the lookup in
\* every reordering of the map, so the blob returned is decided by href and
\* the order of the entries.
C19_FirstSuffixMatchWins ==
  rpc = "resolved" =>
    /\ (StepsOneToThreeFail(images, href) /\ SuffixMatches(images, href) # <<>>) =>
         imgData = Head(SuffixMatches(images, href)).val
    /\ \A p \in Reorderings(images) :
         (StepsOneToThreeFail(p, href) /\ SuffixMatches(p, href) # <<>>) =>
           resolveImage(p, href).val = Head(SuffixMatches(p, href)).val

\* C19 witness: steps 1 to 3 failed, two keys end with href, the lookup
\* returned the blob of the first, and the same pairs inserted in the other
\* order resolve the same href to another blob.
C19_Witness ==
  /\ rpc = "resolved"
  /\ Len(href) >= 1
  /\ StepsOneToThreeFail(images, href)
  /\ Len(SuffixMatches(images, href)) >= 2
  /\ imgData = Head(SuffixMatches(images, href)).val
  /\ \E p \in Reorderings(images) :
       /\ {p[i] : i \in 1..Len(p)} = {images[i] : i \in 1..Len(images)}
       /\ resolveImage(p, href).val # Undefined
       /\ resolveImage(p, href).val # imgData

\* the last path segment of a key or an href
LastSegment(x) == Drop(x, LastSlash(x))

\* the entries of the map that hold the blob the lookup returned
ReturnedEntries == {i \in 1..Len(images) : images[i].val = imgData}

\* C21 as stated: whenever the lookup returned a blob for href, an empty href
\* and an href ending in "/" included, the blob belongs to a key whose last
\* path segment is the last path segment of href.
C21_LastSegmentMatches ==
  (rpc = "resolved" /\ imgData # Undefined) =>
    \E i \in ReturnedEntries : LastSegment(images[i].key) = LastSegment(href)

-----------------------------------------------------------------------------
(* convertToDocx: tokens, runs and blocks *)

Variants == {"cascade", "twoStep"}

\* a value is truthy unless it is undefined or the empty string
Truthy(x) == x # Undefined /\ x # <<>>

\* a block token of marked.lexer; items is only read for a list
Token(type, depth, text, children, items) ==
  [type |-> type, depth |-> depth, text |-> text, tokens |-> children, items |-> items]

\* token.tokens: absent, or the array of inline tokens
NoChildren == [defined |-> FALSE, of |-> <<>>]

Children(cs) == [defined |-> TRUE, of |-> cs]

\* an inline token of a paragraph
Inline(type, text, h) == [type |-> type, text |-> text, href |-> h]

\* one onLog call
Log(msg, level) == [msg |-> msg, level |-> level]

\* docx runs: ImageRun, TextRun, ExternalHyperlink
Run(kind, text, data, link, fmt, brk) ==
  [run |-> kind, text |-> text, data |-> data, link |-> link, fmt |-> fmt, break |-> brk]

\* docx Paragraph options: heading is 0 and bullet is -1 when the option is not given
Block(kind, heading, bullet, text, runs) ==
  [block |-> kind, heading |-> heading, bullet |-> bullet, text |-> text, runs |-> runs]

HeadingLevelUnclamped(depth) == depth

\* token.depth === 1 ? HEADING_1 : ... === 3 ? HEADING_3 : HEADING_4
HeadingLevel(depth) ==
  IF depth = 1 THEN 1
  ELSE IF depth = 2 THEN 2
  ELSE IF depth = 3 THEN 3
  ELSE 4

HeadingBlock(token) == Block("Heading", HeadingLevel(token.depth), -1, token.text, <<>>)

LookupImageHrefFirst(v, m, h) ==
  IF v = "cascade" THEN resolveImage(m, h).val
  ELSE IF Get(m, h) # Undefined THEN Get(m, h)
  ELSE Get(m, FileName(h))

\* the lookup of an image child: resolveImage in the first convertToDocx,
\* images.get(fileName) || images.get(href) in the second
LookupImage(v, m, h) ==
  IF v = "cascade" THEN resolveImage(m, h).val
  ELSE IF Get(m, FileName(h)) # Undefined THEN Get(m, FileName(h))
  ELSE Get(m, h)

MarkerLabel(v) ==
  IF v = "cascade" THEN "\n[IMAGE NOT LOADED: " ELSE "\n[MISSING IMAGE: "

MissingImageRunWithoutHref(v, h) ==
  Run("TextRun", <<MarkerLabel(v), "]\n">>, Undefined, Undefined, {"bold", "FF0000"}, 0)

\* new TextRun({ text: `\n[IMAGE NOT LOADED: ${href}]\n`, color: "FF0000", bold: true })
MissingImageRun(v, h) ==
  Run("TextRun", <<MarkerLabel(v)>> \o h \o <<"]\n">>, Undefined, Undefined,
      {"bold", "FF0000"}, 0)

ImageRun(data) == Run("ImageRun", Undefined, data, Undefined, {}, 0)

MissingImageLog(v, h) ==
  IF v = "cascade"
    THEN Log(<<"Image link broken or missing: ">> \o h, "warning")
    ELSE Log(<<"Image not found in local assets: ">> \o h, "warning")

MatchedImageLog(v, h) ==
  IF v = "cascade"
    THEN Log(<<"Matched asset: ">> \o h, "success")
    ELSE Log(<<"Embedding image: ">> \o FileName(h), "success")

ImageChildAlwaysEmbeds(v, m, c) ==
  [runs |-> <<ImageRun(LookupImage(v, m, c.href))>>,
   logs |-> <<MatchedImageLog(v, c.href)>>]

\* the image branch of the paragraph case: the runs pushed and the onLog calls
ImageChild(v, m, c) ==
  IF LookupImage(v, m, c.href) # Undefined
    THEN [runs |-> <<ImageRun(LookupImage(v, m, c.href))>>,
          logs |-> <<MatchedImageLog(v, c.href)>>]
    ELSE [runs |-> <<MissingImageRun(v, c.href)>>,
          logs |-> <<MissingImageLog(v, c.href)>>]

\* the if / else-if chain over subToken.type: an inline token of another type
\* pushes nothing
InlineChild(v, m, c) ==
  IF c.type = "image" THEN ImageChild(v, m, c)
  ELSE IF c.type = "link"
    THEN [runs |-> <<Run("ExternalHyperlink", c.text, Undefined, c.href, {"Hyperlink"}, 0)>>,
          logs |-> <<>>]
  ELSE IF c.type = "strong"
    THEN [runs |-> <<Run("TextRun", c.text, Undefined, Undefined, {"bold"}, 0)>>,
          logs |-> <<>>]
  ELSE IF c.type = "em"
    THEN [runs |-> <<Run("TextRun", c.text, Undefined, Undefined, {"italic"}, 0)>>,
          logs |-> <<>>]
  ELSE IF c.type = "codespan"
    THEN [runs |-> <<Run("TextRun", c.text, Undefined, Undefined, {"Consolas"}, 0)>>,
          logs |-> <<>>]
  ELSE IF c.type = "text"
    THEN [runs |-> <<Run("TextRun", IF Truthy(c.text) THEN c.text ELSE <<>>,
                         Undefined, Undefined, {}, 0)>>,
          logs |-> <<>>]
  ELSE IF c.type = "br"
    THEN [runs |-> <<Run("TextRun", Undefined, Undefined, Undefined, {}, 1)>>,
          logs |-> <<>>]
  ELSE [runs |-> <<>>, logs |-> <<>>]

\* for (const subToken of token.tokens): the children array and the onLog calls
RECURSIVE WalkChildren(_, _, _)
WalkChildren(v, m, cs) ==
  IF cs = <<>> THEN [runs |-> <<>>, logs |-> <<>>]
  ELSE LET first == InlineChild(v, m, Head(cs))
           rest == WalkChildren(v, m, Tail(cs))
       IN [runs |-> first.runs \o rest.runs, logs |-> first.logs \o rest.logs]

\* the paragraph case
ParagraphCase(v, m, token) ==
  IF token.tokens.defined
    THEN [blocks |-> <<Block("Paragraph", 0, -1, Undefined,
                             WalkChildren(v, m, token.tokens.of).runs)>>,
          logs |-> WalkChildren(v, m, token.tokens.of).logs]
    ELSE [blocks |-> <<Block("Paragraph", 0, -1, Undefined,
                             <<Run("TextRun", token.text, Undefined, Undefined, {}, 0)>>)>>,
          logs |-> <<>>]

ListBlocksReversed(token) ==
  [i \in 1..Len(token.items) |->
     Block("Bullet", 0, 0, token.items[Len(token.items) + 1 - i].text, <<>>)]

\* token.items.forEach(item => sections.push(new Paragraph({ text, bullet: { level: 0 } })))
ListBlocks(token) ==
  [i \in 1..Len(token.items) |-> Block("Bullet", 0, 0, token.items[i].text, <<>>)]

\* String.prototype.split('\n')
RECURSIVE SplitLines(_)
SplitLines(s) ==
  IF \A i \in 1..Len(s) : s[i] # "\n" THEN <<s>>
  ELSE LET i == CHOOSE k \in 1..Len(s) :
                  s[k] = "\n" /\ \A j \in 1..(k - 1) : s[j] # "\n"
       IN <<SubSeq(s, 1, i - 1)>> \o SplitLines(Drop(s, i))

CodeRunsBreakEveryLine(text) ==
  [i \in 1..Len(SplitLines(text)) |->
     Run("TextRun", SplitLines(text)[i], Undefined, Undefined, {"Consolas"}, 1)]

\* lines.map((line, index) => new TextRun({ text: line, break: index > 0 ? 1 : 0 }))
CodeRuns(text) ==
  [i \in 1..Len(SplitLines(text)) |->
     Run("TextRun", SplitLines(text)[i], Undefined, Undefined, {"Consolas"},
         IF i - 1 > 0 THEN 1 ELSE 0)]

CodeBlock(token) == Block("Code", 0, -1, Undefined, CodeRuns(token.text))

RuleBlock == Block("Rule", 0, -1, NoChildren, <<>>)

DefaultBlocksAlways(token) == <<Block("Paragraph", 0, -1, token.text, <<>>)>>

\* default: if (token.text) sections.push(new Paragraph({ text: token.text }))
DefaultBlocks(token) ==
  IF Truthy(token.text) THEN <<Block("Paragraph", 0, -1, token.text, <<>>)>> ELSE <<>>

BlockTypes == {"heading", "paragraph", "list", "code", "hr"}

Unshift(secs, blocks) == blocks \o secs

\* sections.push(...), once per block in the order given
Push(secs, blocks) == secs \o blocks

\* what the second convertToDocx finds for the href that resolveImage was
\* called with
TwoStepData == LookupImage("twoStep", images, href)

\* the map has a key that steps 1 or 2 of the cascade find before the basename
\* step and that is not the basename key
EarlierKeyThanBasename ==
  \/ Has(images, href) /\ href # Drop(href, LastSlash(href))
  \/ /\ ~Has(images, href)
     /\ Has(images, StripLead(href))
     /\ StripLead(href) # Drop(href, LastSlash(href))

\* C20 as stated: whenever the two-step lookup finds a blob for href, the
\* cascade returned a blob for href, and the same one.
C20_TwoStepWithinCascade ==
  (rpc = "resolved" /\ TwoStepData # Undefined) =>
    (imgData # Undefined /\ imgData = TwoStepData)

\* C20, amended: whenever the two-step lookup finds a blob for href, the
\* cascade returned a blob for href too; the two blobs differ exactly when the
\* basename of href is a key and href, or else the normalized href, is another
\* key: the cascade then returned the blob of that key (the exact key first)
\* and the two-step lookup the blob of the basename key.
C20_CascadeResolvesWhatTwoStepResolves ==
  (rpc = "resolved" /\ TwoStepData # Undefined) =>
    /\ imgData # Undefined
    /\ imgData # TwoStepData <=>
         (Has(images, Drop(href, LastSlash(href))) /\ EarlierKeyThanBasename)
    /\ imgData # TwoStepData =>
         /\ TwoStepData = Get(images, Drop(href, LastSlash(href)))
         /\ imgData = (IF Has(images, href) THEN Get(images, href)
                       ELSE Get(images, StripLead(href)))

\* C20 witness: the map holds the basename of href and href itself as keys;
\* the cascade returned the blob of the exact key, the two-step lookup finds
\* the blob of the basename key.
C20_Witness ==
  /\ rpc = "resolved"
  /\ Len(images) = 2
  /\ Has(images, href) /\ Has(images, Drop(href, LastSlash(href)))
  /\ href # Drop(href, LastSlash(href))
  /\ imgData = Get(images, href)
  /\ TwoStepData = Get(images, Drop(href, LastSlash(href)))
  /\ imgData # TwoStepData

-----------------------------------------------------------------------------
(* Inputs of convertToDocx *)

\* the inline token kinds of marked; "del" stands for the kinds the paragraph
\* case has no branch for
InlineShapes ==
  { Inline("text", <<"t">>, Undefined),
    Inline("strong", <<"s">>, Undefined),
    Inline("em", <<"e">>, Undefined),
    Inline("codespan", <<"c">>, Undefined),
    Inline("link", <<"l">>, <<"u">>),
    Inline("br", Undefined, Undefined),
    Inline("del", <<"d">>, Undefined),
    Inline("image", <<>>, <<"a">>),
    Inline("image", <<>>, <<"b">>) }

RECURSIVE SeqsOfLen(_, _)
SeqsOfLen(S, n) ==
  IF n = 0 THEN {<<>>}
  ELSE {Append(q, x) : q \in SeqsOfLen(S, n - 1), x \in S}

SeqsUpTo(S, n) == UNION {SeqsOfLen(S, k) : k \in 0..n}

ParagraphTokens ==
  {Token("paragraph", 0, <<"p">>, Children(cs), <<>>) : cs \in SeqsUpTo(InlineShapes, MaxChildren)}

CodeTokens ==
  {Token("code", 0, t, NoChildren, <<>>) : t \in SeqsUpTo({"x", "y", "\n"}, MaxCodeLen)}

ListTokens ==
  {Token("list", 0, <<>>, NoChildren, its) :
     its \in SeqsUpTo({[text |-> <<"i">>], [text |-> <<"j">>]}, MaxItems) \ {<<>>}}

HeadingTokens ==
  {Token("heading", d, <<"T">>, NoChildren, <<>>) : d \in 1..MaxDepth}

\* tokens of the other block types: with a text, with an empty text, without
OtherTokens ==
  { Token("html", 0, <<"h">>, NoChildren, <<>>),
    Token("def", 0, <<>>, NoChildren, <<>>),
    Token("space", 0, Undefined, NoChildren, <<>>) }

\* the tokens that documents of several tokens are built from
PlainTokens ==
  HeadingTokens \cup OtherTokens \cup
  { Token("hr", 0, Undefined, NoChildren, <<>>),
    Token("paragraph", 0, <<"p">>, NoChildren, <<>>),
    Token("paragraph", 0, <<"p">>, Children(<<Inline("text", <<"t">>, Undefined)>>), <<>>),
    Token("paragraph", 0, <<"p">>,
          Children(<<Inline("image", <<>>, <<"b">>), Inline("text", <<"t">>, Undefined)>>),
          <<>>),
    Token("paragraph", 0, <<"p">>, Children(<<Inline("image", <<>>, <<"a">>)>>), <<>>),
    Token("code", 0, <<"x", "\n", "y">>, NoChildren, <<>>),
    Token("list", 0, <<>>, NoChildren, <<[text |-> <<"i">>], [text |-> <<"j">>]>>) }

\* the documents compiled: up to MaxTokens plain tokens, or one paragraph,
\* code block or list of any content within the bounds
TokenLists ==
  SeqsUpTo(PlainTokens, MaxTokens)
    \cup {<<t>> : t \in ParagraphTokens \cup CodeTokens \cup ListTokens}

CompileMaps ==
  { <<>>,
    <<[key |-> <<"a">>, val |-> BlobOf(<<"a">>)]>>,
    <<[key |-> <<"a", "/", "a">>, val |-> BlobOf(<<"a", "/", "a">>)]>> }

\* what Packer.toBlob may reject with: an Error, or a value that is no Error
EncodeErrors ==
  { [kind |-> "Error", message |-> <<"Invalid array length">>],
    [kind |-> "string", message |-> <<"out of memory">>] }

-----------------------------------------------------------------------------
(* convertToDocx *)

InitCompile ==
  /\ images \in CompileMaps
  /\ ResolverIdle
  /\ variant \in Variants
  /\ tokens \in TokenLists
  /\ ti = 1
  /\ sections = <<>>
  /\ logs = <<>>
  /\ cpc = "start"
  /\ outcome = Pending
  /\ ExtractorIdle
  /\ AppIdle

\* onLog("Initializing DOCX engine..."), the lexer call, sections = []
StartConvert ==
  /\ cpc = "start"
  /\ logs' = Append(logs, Log(<<"Initializing DOCX engine...">>, "info"))
  /\ cpc' = "loop"
  /\ UNCHANGED <<images, appVars, resolveVars, extractVars, variant, tokens, ti, sections, outcome>>

AtToken(types) ==
  /\ cpc = "loop"
  /\ ti <= Len(tokens)
  /\ tokens[ti].type \in types

CompileHeading ==
  /\ AtToken({"heading"})
  /\ sections' = Push(sections, <<HeadingBlock(tokens[ti])>>)
  /\ ti' = ti + 1
  /\ UNCHANGED <<images, appVars, resolveVars, extractVars, variant, tokens, logs, cpc, outcome>>

CompileParagraph ==
  /\ AtToken({"paragraph"})
  /\ sections' = Push(sections, ParagraphCase(variant, images, tokens[ti]).blocks)
  /\ logs' = logs \o ParagraphCase(variant, images, tokens[ti]).logs
  /\ ti' = ti + 1
  /\ UNCHANGED <<images, appVars, resolveVars, extractVars, variant, tokens, cpc, outcome>>

CompileList ==
  /\ AtToken({"list"})
  /\ sections' = Push(sections, ListBlocks(tokens[ti]))
  /\ ti' = ti + 1
  /\ UNCHANGED <<images, appVars, resolveVars, extractVars, variant, tokens, logs, cpc, outcome>>

CompileCode ==
  /\ AtToken({"code"})
  /\ sections' = Push(sections, <<CodeBlock(tokens[ti])>>)
  /\ ti' = ti + 1
  /\ UNCHANGED <<images, appVars, resolveVars, extractVars, variant, tokens, logs, cpc, outcome>>

CompileRule ==
  /\ AtToken({"hr"})
  /\ sections' = Push(sections, <<RuleBlock>>)
  /\ ti' = ti + 1
  /\ UNCHANGED <<images, appVars, resolveVars, extractVars, variant, tokens, logs, cpc, outcome>>

CompileDefault ==
  /\ cpc = "loop"
  /\ ti <= Len(tokens)
  /\ tokens[ti].type \notin BlockTypes
  /\ sections' = Push(sections, DefaultBlocks(tokens[ti]))
  /\ ti' = ti + 1
  /\ UNCHANGED <<images, appVars, resolveVars, extractVars, variant, tokens, logs, cpc, outcome>>

\* new Document(...), onLog("Finalizing DOCX binary data..."), Packer.toBlob(doc)
Finalize ==
  /\ cpc = "loop"
  /\ ti > Len(tokens)
  /\ logs' = Append(logs, Log(<<"Finalizing DOCX binary data...">>, "info"))
  /\ cpc' = "packing"
  /\ UNCHANGED <<images, appVars, resolveVars, extractVars, variant, tokens, ti, sections, outcome>>

\* the promise of Packer.toBlob fulfils: convertToDocx returns the blob
PackerResolves ==
  /\ cpc = "packing"
  /\ outcome' = [kind |-> "blob", of |-> sections]
  /\ cpc' = "returned"
  /\ UNCHANGED <<images, appVars, resolveVars, extractVars, variant, tokens, ti, sections, logs>>

\* the promise of Packer.toBlob rejects: convertToDocx has no catch
PackerRejects ==
  /\ cpc = "packing"
  /\ \E e \in EncodeErrors : outcome' = [kind |-> "error", of |-> e]
  /\ cpc' = "threw"
  /\ UNCHANGED <<images, appVars, resolveVars, extractVars, variant, tokens, ti, sections, logs>>

NextCompile ==
  \/ StartConvert
  \/ CompileHeading
  \/ CompileParagraph
  \/ CompileList
  \/ CompileCode
  \/ CompileRule
  \/ CompileDefault
  \/ Finalize
  \/ PackerResolves
  \/ PackerRejects

SpecCompile == InitCompile /\ [][NextCompile]_vars

-----------------------------------------------------------------------------
(* Claims about convertToDocx *)

\* the number of blocks a token stands for in the Document
Yield(t) ==
  CASE t.type \in {"heading", "paragraph", "code", "hr"} -> 1
    [] t.type = "list" -> Len(t.items)
    [] OTHER -> IF t.text \in {Undefined, <<>>} THEN 0 ELSE 1

RECURSIVE YieldSum(_)
YieldSum(toks) == IF toks = <<>> THEN 0 ELSE Yield(Head(toks)) + YieldSum(Tail(toks))

\* the tokens the loop is past, and the block the j-th of them was compiled to
Processed == 1..(ti - 1)

BlockOf(j) == sections[YieldSum(SubSeq(tokens, 1, j - 1)) + 1]

ProcessedOfType(type) == {j \in Processed : tokens[j].type = type}

ParagraphsWithChildren == {j \in ProcessedOfType("paragraph") : tokens[j].tokens.defined}

Contains(text, part) ==
  \E i \in 0..(Len(text) - Len(part)) : SubSeq(text, i + 1, i + Len(part)) = part

IsImage(c) == c.type = "image"

IsMiss(c) == IsImage(c) /\ LookupImage(variant, images, c.href) = Undefined

IsHit(c) == IsImage(c) /\ LookupImage(variant, images, c.href) # Undefined

\* the red bold text run that stands for an image that was not found
IsMarker(r) == r.run = "TextRun" /\ {"bold", "FF0000"} \subseteq r.fmt

IsImageOrMarker(r) == r.run = "ImageRun" \/ IsMarker(r)

HasLevel(level) == LET Test(l) == l.level = level IN SelectSeq(logs, Test)

\* the inline children of the paragraphs among toks, in document order
RECURSIVE ChildrenIn(_)
ChildrenIn(toks) ==
  IF toks = <<>> THEN <<>>
  ELSE (IF Head(toks).type = "paragraph" /\ Head(toks).tokens.defined
          THEN Head(toks).tokens.of ELSE <<>>)
       \o ChildrenIn(Tail(toks))

ProcessedChildren == ChildrenIn(SubSeq(tokens, 1, ti - 1))

InlineKinds == {"text", "strong", "em", "codespan", "link", "image", "br"}

\* C3: an image child whose href resolves to nothing yields exactly one marker
\* run containing the href and exactly one warning, in order; the compiler then
\* compiles the later children and tokens: it only ever fails in the packer,
\* after all tokens were compiled.
C3_MissIsNotFatal ==
  /\ \A j \in ParagraphsWithChildren :
       LET misses == SelectSeq(tokens[j].tokens.of, IsMiss)
           markers == SelectSeq(BlockOf(j).runs, IsMarker)
       IN /\ Len(markers) = Len(misses)
          /\ \A k \in 1..Len(misses) : Contains(markers[k].text, misses[k].href)
          /\ Len(BlockOf(j).runs) =
               Cardinality({k \in 1..Len(tokens[j].tokens.of) :
                              tokens[j].tokens.of[k].type \in InlineKinds})
  /\ LET misses == SelectSeq(ProcessedChildren, IsMiss)
         warnings == HasLevel("warning")
     IN /\ Len(warnings) = Len(misses)
        /\ \A k \in 1..Len(misses) : Contains(warnings[k].msg, misses[k].href)
  /\ HasLevel("error") = <<>>
  /\ cpc \in {"packing", "returned", "threw"} =>
       /\ ti = Len(tokens) + 1
       /\ Len(sections) = YieldSum(tokens)
  /\ cpc = "threw" => outcome.kind = "error" /\ outcome.of \in EncodeErrors

\* C3 witness: the blob was returned for a document whose first paragraph has
\* an unresolved image followed by another child, and which has a later token.
C3_Witness ==
  /\ cpc = "returned"
  /\ Len(tokens) >= 2
  /\ tokens[1].type = "paragraph" /\ tokens[1].tokens.defined
  /\ Len(tokens[1].tokens.of) >= 2
  /\ IsMiss(tokens[1].tokens.of[1])
  /\ Len(sections) >= 2

\* C4: in every compiled paragraph the image children and the image/marker
\* runs correspond one to one, in order: an ImageRun carrying the blob the
\* lookup returned (and a success entry in the log) when it returned one, a
\* marker otherwise.
C4_ImageRunOnlyWhenResolved ==
  /\ \A j \in ParagraphsWithChildren :
       LET imgs == SelectSeq(tokens[j].tokens.of, IsImage)
           runs == SelectSeq(BlockOf(j).runs, IsImageOrMarker)
       IN /\ Len(runs) = Len(imgs)
          /\ \A k \in 1..Len(imgs) :
               IF IsHit(imgs[k])
                 THEN /\ runs[k].run = "ImageRun"
                      /\ runs[k].data = LookupImage(variant, images, imgs[k].href)
                      /\ runs[k].data \in {images[i].val : i \in 1..Len(images)}
                 ELSE IsMarker(runs[k])
  /\ Len(HasLevel("success")) = Len(SelectSeq(ProcessedChildren, IsHit))

\* C4 witness: a compiled paragraph with a resolved and an unresolved image.
C4_Witness ==
  \E j \in ParagraphsWithChildren :
    /\ \E k \in 1..Len(tokens[j].tokens.of) : IsHit(tokens[j].tokens.of[k])
    /\ \E k \in 1..Len(tokens[j].tokens.of) : IsMiss(tokens[j].tokens.of[k])

\* C5: a heading of depth 1, 2 or 3 is compiled to a Heading of that level, a
\* heading of depth 4 or more to a Heading of level 4, with the token's text.
C5_HeadingClamp ==
  \A j \in ProcessedOfType("heading") :
    /\ BlockOf(j).block = "Heading"
    /\ tokens[j].depth \in 1..3 => BlockOf(j).heading = tokens[j].depth
    /\ tokens[j].depth >= 4 => BlockOf(j).heading = 4
    /\ BlockOf(j).text = tokens[j].text

\* C5 witness: a heading of depth 5 or more was compiled.
C5_Witness ==
  \E j \in ProcessedOfType("heading") : tokens[j].depth >= 5 /\ BlockOf(j).heading = 4

RECURSIVE JoinLines(_)
JoinLines(runs) ==
  IF runs = <<>> THEN <<>>
  ELSE (IF Head(runs).break = 1 THEN <<"\n">> ELSE <<>>)
       \o Head(runs).text \o JoinLines(Tail(runs))

NewLines(text) == Cardinality({i \in 1..Len(text) : text[i] = "\n"})

\* C6: a code token whose text has k lines is compiled to k text runs, none
\* holding a line feed, the first without a break and each other one after
\* exactly one break, which put back together give the token's text.
C6_CodeLines ==
  \A j \in ProcessedOfType("code") :
    LET runs == BlockOf(j).runs
    IN /\ Len(runs) = NewLines(tokens[j].text) + 1
       /\ \A i \in 1..Len(runs) :
            /\ runs[i].run = "TextRun"
            /\ NewLines(runs[i].text) = 0
            /\ runs[i].break = (IF i = 1 THEN 0 ELSE 1)
       /\ JoinLines(runs) = tokens[j].text

\* C6 witness: a code token of three lines, two of them different, was compiled.
C6_Witness ==
  \E j \in ProcessedOfType("code") :
    /\ Len(BlockOf(j).runs) = 3
    /\ BlockOf(j).runs[1].text # BlockOf(j).runs[3].text

\* the kinds of block a token yields, in order
ExpectedKinds(t) ==
  CASE t.type = "heading" -> <<"Heading">>
    [] t.type = "paragraph" -> <<"Paragraph">>
    [] t.type = "list" -> [i \in 1..Len(t.items) |-> "Bullet"]
    [] t.type = "code" -> <<"Code">>
    [] t.type = "hr" -> <<"Rule">>
    [] OTHER -> IF t.text \in {Undefined, <<>>} THEN <<>> ELSE <<"Paragraph">>

RECURSIVE ExpectedKindsOf(_)
ExpectedKindsOf(toks) ==
  IF toks = <<>> THEN <<>> ELSE ExpectedKinds(Head(toks)) \o ExpectedKindsOf(Tail(toks))

\* the text a block carries, whichever way its kind carries it
TextOfBlock(b) ==
  CASE b.block \in {"Heading", "Bullet"} -> b.text
    [] b.block = "Code" -> JoinLines(b.runs)
    [] b.block = "Paragraph" /\ b.runs = <<>> -> b.text
    [] OTHER -> <<>>

Prefix(p, q) == Len(p) <= Len(q) /\ \A i \in 1..Len(p) : p[i] = q[i]

\* C15: at every moment the blocks are, in token order, those of the tokens
\* compiled so far (heading 1, paragraph 1, list one per item, code 1, rule 1,
\* any other token 0 or 1), each heading, bullet, code block and fallback
\* paragraph carrying the text of its own token; a step only appends blocks;
\* the packer is called only after the last token, with exactly these blocks,
\* which do not change afterwards.
C15_BlockOrderIsSourceOrder ==
  /\ [](/\ [k \in 1..Len(sections) |-> sections[k].block]
             = ExpectedKindsOf(SubSeq(tokens, 1, ti - 1))
        /\ \A j \in Processed :
             /\ tokens[j].type \in {"heading", "code"} =>
                  TextOfBlock(BlockOf(j)) = tokens[j].text
             /\ tokens[j].type = "list" =>
                  \A i \in 1..Len(tokens[j].items) :
                    sections[YieldSum(SubSeq(tokens, 1, j - 1)) + i].text
                      = tokens[j].items[i].text
             /\ (tokens[j].type \notin BlockTypes /\ Yield(tokens[j]) = 1) =>
                  TextOfBlock(BlockOf(j)) = tokens[j].text
        /\ cpc \in {"packing", "returned", "threw"} => ti = Len(tokens) + 1
        /\ cpc = "returned" => outcome = [kind |-> "blob", of |-> sections])
  /\ [][/\ Prefix(sections, sections')
        /\ cpc \in {"packing", "returned", "threw"} => sections' = sections]_vars

C15_Witness ==
  /\ cpc = "returned"
  /\ Len(tokens) = 2
  /\ tokens[1].type = "list"
  /\ tokens[2].type = "heading"
  /\ Len(sections) = 3
  /\ sections[1].text = <<"i">>
  /\ sections[2].text = <<"j">>
  /\ sections[3].block = "Heading"

\* the InlineRun a docx run stands for
RunKind(r) ==
  CASE r.run = "ImageRun" -> "Image"
    [] r.run = "ExternalHyperlink" -> "Hyperlink"
    [] r.run = "TextRun" /\ {"bold", "FF0000"} \subseteq r.fmt -> "MissingImageMarker"
    [] r.run = "TextRun" /\ r.fmt = {"bold"} -> "Bold"
    [] r.run = "TextRun" /\ r.fmt = {"italic"} -> "Italic"
    [] r.run = "TextRun" /\ r.fmt = {"Consolas"} -> "InlineCode"
    [] r.run = "TextRun" /\ r.fmt = {} /\ r.break = 1 -> "LineBreak"
    [] OTHER -> "PlainText"

\* the InlineRun kinds an inline child of one of the seven kinds may become
RunKindsFor(c) ==
  CASE c.type = "text" -> {"PlainText"}
    [] c.type = "strong" -> {"Bold"}
    [] c.type = "em" -> {"Italic"}
    [] c.type = "codespan" -> {"InlineCode"}
    [] c.type = "link" -> {"Hyperlink"}
    [] c.type = "image" -> {"Image", "MissingImageMarker"}
    [] c.type = "br" -> {"LineBreak"}
    [] OTHER -> {}

\* the k-th run is the run of the child c
RunMatches(r, c) ==
  /\ RunKind(r) \in RunKindsFor(c)
  /\ c.type \in {"text", "strong", "em", "codespan"} =>
       r.text = (IF Truthy(c.text) THEN c.text ELSE <<>>)
  /\ c.type = "link" => r.text = c.text /\ r.link = c.href

\* a paragraph without inline children: one PlainText run with its raw text
RawTextFallback(j) ==
  /\ Len(BlockOf(j).runs) = 1
  /\ RunKind(BlockOf(j).runs[1]) = "PlainText"
  /\ BlockOf(j).runs[1].text = tokens[j].text

\* C16 as stated: a compiled paragraph holds exactly one run per inline child,
\* in the children's order (text to PlainText, strong to Bold, em to Italic,
\* codespan to InlineCode, link to Hyperlink with its text and href, image to
\* Image or MissingImageMarker, br to LineBreak), and a paragraph without
\* inline children holds exactly one PlainText run with its raw text.
C16_OneRunPerChild ==
  \A j \in ProcessedOfType("paragraph") :
    IF tokens[j].tokens.defined
      THEN /\ Len(BlockOf(j).runs) = Len(tokens[j].tokens.of)
           /\ \A k \in 1..Len(tokens[j].tokens.of) :
                k <= Len(BlockOf(j).runs) =>
                  RunMatches(BlockOf(j).runs[k], tokens[j].tokens.of[k])
      ELSE RawTextFallback(j)

\* the blocks the j-th token was compiled to
BlocksOf(j) ==
  SubSeq(sections, YieldSum(SubSeq(tokens, 1, j - 1)) + 1,
         YieldSum(SubSeq(tokens, 1, j)))

\* C17: the step that compiles a list token of m items appends exactly m
\* blocks and nothing else; the i-th of them is a bullet item of level 0 that
\* carries the text of the i-th item, and these blocks stay where they are.
C17_OneBulletPerItem ==
  /\ [][(cpc = "loop" /\ ti <= Len(tokens) /\ tokens[ti].type = "list" /\ ti' = ti + 1) =>
          /\ Len(sections') = Len(sections) + Len(tokens[ti].items)
          /\ SubSeq(sections', 1, Len(sections)) = sections
          /\ \A i \in 1..Len(tokens[ti].items) :
               /\ sections'[Len(sections) + i].block = "Bullet"
               /\ sections'[Len(sections) + i].bullet = 0
               /\ sections'[Len(sections) + i].text = tokens[ti].items[i].text
          /\ logs' = logs]_vars
  /\ [](\A j \in ProcessedOfType("list") :
          /\ Len(BlocksOf(j)) = Len(tokens[j].items)
          /\ \A i \in 1..Len(tokens[j].items) :
               /\ BlocksOf(j)[i].block = "Bullet"
               /\ BlocksOf(j)[i].bullet = 0
               /\ BlocksOf(j)[i].text = tokens[j].items[i].text)

\* C17 witness: a list of three items, not all with the same text, was
\* compiled to three bullet items and the document was returned.
C17_Witness ==
  /\ cpc = "returned"
  /\ Len(tokens) = 1
  /\ tokens[1].type = "list"
  /\ Len(tokens[1].items) = 3
  /\ tokens[1].items[1].text # tokens[1].items[3].text
  /\ Len(sections) = 3
  /\ \A i \in 1..3 : sections[i].block = "Bullet" /\ sections[i].bullet = 0
  /\ sections[1].text = tokens[1].items[1].text
  /\ sections[3].text = tokens[1].items[3].text

\* C18: the step that compiles a token of no handled type appends exactly one
\* paragraph holding the token's text when that text is a non-empty string,
\* and appends nothing otherwise; either way it writes no log entry, raises
\* nothing and goes on to the next token.
C18_UnknownTokenFallback ==
  [][(cpc = "loop" /\ ti <= Len(tokens) /\ tokens[ti].type \notin BlockTypes) =>
       /\ ti' = ti + 1
       /\ logs' = logs
       /\ cpc' = cpc
       /\ outcome' = outcome
       /\ IF tokens[ti].text \notin {Undefined, <<>>}
            THEN /\ Len(sections') = Len(sections) + 1
                 /\ SubSeq(sections', 1, Len(sections)) = sections
                 /\ sections'[Len(sections')].block = "Paragraph"
                 /\ sections'[Len(sections')].text = tokens[ti].text
                 /\ sections'[Len(sections')].runs = <<>>
                 /\ sections'[Len(sections')].heading = 0
                 /\ sections'[Len(sections')].bullet = -1
            ELSE sections' = sections]_vars

\* C18 witness: a token of another type with a text and one without were
\* compiled, the first to a paragraph with its text, the second to nothing,
\* and the document was returned with no warning or error in the log.
C18_Witness ==
  /\ cpc = "returned"
  /\ Len(tokens) = 2
  /\ tokens[1].type \notin BlockTypes /\ tokens[1].text \notin {Undefined, <<>>}
  /\ tokens[2].type \notin BlockTypes /\ tokens[2].text \in {Undefined, <<>>}
  /\ Len(sections) = 1
  /\ sections[1].block = "Paragraph"
  /\ sections[1].text = tokens[1].text
  /\ HasLevel("warning") = <<>> /\ HasLevel("error") = <<>>

-----
(* convertDocxToMd: text of the external converter and its post-processing *)
(* A text is a sequence of symbols: single characters, and the words       *)
(* below, which stand for their characters.                                *)

PlaceholderWord == "IMAGE_PATH_PLACEHOLDER_"
SrcWord == "src="
FigureWord == "images/figure_"
PngWord == ".png"

DigitChars == <<"0", "1", "2", "3", "4", "5", "6", "7", "8", "9">>

IsDigit(x) == \E i \in 1..Len(DigitChars) : DigitChars[i] = x

\* the first character of a symbol
FirstChar(x) ==
  CASE x = PlaceholderWord -> "I"
    [] x = SrcWord -> "s"
    [] x = FigureWord -> "i"
    [] x = PngWord -> "."
    [] OTHER -> x

\* `${id}`: the decimal digits of a number
RECURSIVE Decimal(_)
Decimal(n) ==
  IF n < 10 THEN <<DigitChars[n + 1]>>
  ELSE Decimal(n \div 10) \o <<DigitChars[(n % 10) + 1]>>

\* src: `IMAGE_PATH_PLACEHOLDER_${id}`
PlaceholderSrc(id) == <<PlaceholderWord>> \o Decimal(id)

\* (\d+): the length of the run of digits that starts at position i
RECURSIVE DigitsAt(_, _)
DigitsAt(t, i) ==
  IF i <= Len(t) /\ IsDigit(t[i]) THEN 1 + DigitsAt(t, i + 1) ELSE 0

StartsWith(t, pre) == Len(pre) <= Len(t) /\ SubSeq(t, 1, Len(pre)) = pre

\* a match, at the start of t, of pre IMAGE_PATH_PLACEHOLDER_(\d+) post:
\* its length, 0 when there is none
MatchPlaceholder(t, pre, post) ==
  LET word == pre \o <<PlaceholderWord>>
      d == DigitsAt(t, Len(word) + 1)
  IN IF /\ StartsWith(t, word)
        /\ d > 0
        /\ StartsWith(Drop(t, Len(word) + d), post)
       THEN Len(word) + d + Len(post)
       ELSE 0

\* '![](images/figure_$1.png)'
FigureImage(digits) ==
  <<"!", "[", "]", "(", FigureWord>> \o digits \o <<PngWord, ")">>

\* markdown.replace(/pre IMAGE_PATH_PLACEHOLDER_(\d+) post/g, '![](images/figure_$1.png)')
RECURSIVE ReplacePlaceholders(_, _, _)
ReplacePlaceholders(t, pre, post) ==
  IF t = <<>> THEN <<>>
  ELSE LET n == MatchPlaceholder(t, pre, post)
       IN IF n > 0
            THEN FigureImage(SubSeq(t, Len(pre) + 2, n - Len(post)))
                 \o ReplacePlaceholders(Drop(t, n), pre, post)
            ELSE <<Head(t)>> \o ReplacePlaceholders(Tail(t), pre, post)

AttributePrefix == <<SrcWord, "\"">>
AttributeSuffix == <<"\"">>
EmptyAltPrefix == <<"!", "[", "]", "(">>
EmptyAltSuffix == <<")">>

\* the two placeholder replacements
RewritePlaceholders(t) ==
  ReplacePlaceholders(ReplacePlaceholders(t, AttributePrefix, AttributeSuffix),
                      EmptyAltPrefix, EmptyAltSuffix)

\* markdown.replace(/\\([chars])/g, '$1')
RECURSIVE Unescape(_, _)
Unescape(t, chars) ==
  IF t = <<>> THEN <<>>
  ELSE IF Len(t) >= 2 /\ t[1] = "\\" /\ FirstChar(t[2]) \in chars
    THEN <<t[2]>> \o Unescape(Drop(t, 2), chars)
  ELSE <<Head(t)>> \o Unescape(Tail(t), chars)

PunctuationChars == {"_", "(", ")", "[", "]", "\"", "'"}

RECURSIVE UnescapeToFixpoint(_)
UnescapeToFixpoint(t) ==
  LET once == Unescape(Unescape(Unescape(t, PunctuationChars), {"."}), {"-"})
  IN IF once = t THEN t ELSE UnescapeToFixpoint(once)

EscapeCleanupTwice(t) ==
  LET once == Unescape(Unescape(Unescape(t, PunctuationChars), {"."}), {"-"})
  IN Unescape(Unescape(Unescape(once, PunctuationChars), {"."}), {"-"})

\* the three escape replacements, in the order of the code
EscapeCleanup(t) ==
  Unescape(Unescape(Unescape(t, PunctuationChars), {"."}), {"-"})

\* lines 40-46: what is returned for result.value
PostProcess(value) == EscapeCleanup(RewritePlaceholders(value))

-----------------------------------------------------------------------------
(* convertDocxToMd: the document, the image callback, the try/catch *)

\* the elements of a Word document: characters of text, and embedded images
\* that the markdown writer renders as ![](src), as ![alt](src) when the image
\* has an alternative text, or as an attribute src="..."
ImageForms == {"<image>", "<image alt>", "<image attr>"}

TextChars == {"\\", "_", "(", ".", "-", "n"}

Doc(body) == [present |-> TRUE, body |-> body]

NImages(body) == Cardinality({i \in 1..Len(body) : body[i] \in ImageForms})

\* how an image is written, given the src the convertImage callback returned
ImageText(form, src) ==
  CASE form = "<image>" -> <<"!", "[", "]", "(">> \o src \o <<")">>
    [] form = "<image alt>" -> <<"!", "[", "a", "]", "(">> \o src \o <<")">>
    [] form = "<image attr>" -> <<SrcWord, "\"">> \o src \o <<"\"">>

\* result.value: the text of the document with each image written with the
\* src returned for it
RECURSIVE Render(_, _)
Render(body, ids) ==
  IF body = <<>> THEN <<>>
  ELSE IF Head(body) \in ImageForms
    THEN ImageText(Head(body), PlaceholderSrc(Head(ids))) \o Render(Tail(body), Tail(ids))
  ELSE <<Head(body)>> \o Render(Tail(body), ids)

\* what mammoth may reject with: an Error, or a value that is no Error
DecodeErrors ==
  { [kind |-> "Error", message |-> <<"Could not find main document part">>],
    [kind |-> "string", message |-> <<"corrupted">>] }

SharedCounterCell(c) == 1

\* the imageCounter a call's convertImage closes over: its own
CounterCell(c) == c

Wrapped(e) == [kind |-> "Error", message |-> <<"Extraction failed: ">> \o e.message]

\* throw error
Rethrown(e) == e

\* `Extraction failed: ${error instanceof Error ? error.message : 'Unknown error'}`
FailureLog(e) ==
  Log(<<"Extraction failed: ">>
        \o (IF e.kind = "Error" THEN e.message ELSE <<"Unknown error">>), "error")

\* calls that run side by side on documents holding images only
ConcurrentDocs ==
  [Calls -> {Doc([i \in 1..n |-> "<image>"]) : n \in 1..MaxImages}]

\* one call on any document within the bound
SingleDocs ==
  {[c \in Calls |-> IF c = 1 THEN Doc(b) ELSE NoDoc] :
     b \in SeqsUpTo(TextChars \cup ImageForms, MaxElems)}

InitExtract ==
  /\ images = <<>>
  /\ ResolverIdle
  /\ CompilerIdle
  /\ docx \in ConcurrentDocs \cup SingleDocs
  /\ epc = [c \in Calls |-> "idle"]
  /\ imageCounter = [c \in Calls |-> 0]
  /\ issued = [c \in Calls |-> <<>>]
  /\ elogs = [c \in Calls |-> <<>>]
  /\ rejection = [c \in Calls |-> NoError]
  /\ eout = [c \in Calls |-> Pending]
  /\ AppIdle

\* lines 8-33: the first onLog, let imageCounter = 1, the call of mammoth
StartExtract(c) ==
  /\ epc[c] = "idle"
  /\ docx[c].present
  /\ elogs' = [elogs EXCEPT ![c] =
       Append(@, Log(<<"Analyzing Word structure and identifying assets...">>, "info"))]
  /\ imageCounter' = [imageCounter EXCEPT ![CounterCell(c)] = 1]
  /\ epc' = [epc EXCEPT ![c] = "decoding"]
  /\ UNCHANGED <<images, appVars, resolveVars, compileVars, docx, issued, rejection, eout>>

\* lines 23-29: mammoth calls convertImage for the next image of the document
ConvertImage(c) ==
  /\ epc[c] = "decoding"
  /\ Len(issued[c]) < NImages(docx[c].body)
  /\ LET id == imageCounter[CounterCell(c)]
     IN /\ imageCounter' = [imageCounter EXCEPT ![CounterCell(c)] = id + 1]
        /\ elogs' = [elogs EXCEPT ![c] =
             Append(@, Log(<<"Asset detected: Image #">> \o Decimal(id), "success"))]
        /\ issued' = [issued EXCEPT ![c] = Append(@, id)]
  /\ UNCHANGED <<images, appVars, resolveVars, compileVars, docx, epc, rejection, eout>>

\* lines 33-49: the promise of mammoth fulfils; post-processing; return
DecodeResolves(c) ==
  /\ epc[c] = "decoding"
  /\ Len(issued[c]) = NImages(docx[c].body)
  /\ elogs' = [elogs EXCEPT ![c] =
       @ \o << Log(<<"Refining document structure...">>, "info"),
               Log(<<"Base Markdown generated successfully.">>, "success") >>]
  /\ eout' = [eout EXCEPT ![c] =
       [kind |-> "value", of |-> PostProcess(Render(docx[c].body, issued[c]))]]
  /\ epc' = [epc EXCEPT ![c] = "returned"]
  /\ UNCHANGED <<images, appVars, resolveVars, compileVars, docx, imageCounter, issued, rejection>>

\* lines 50-53: the promise of mammoth rejects; catch, onLog, throw
DecodeRejects(c) ==
  /\ epc[c] = "decoding"
  /\ \E e \in DecodeErrors :
       /\ rejection' = [rejection EXCEPT ![c] = e]
       /\ elogs' = [elogs EXCEPT ![c] = Append(@, FailureLog(e))]
       /\ eout' = [eout EXCEPT ![c] = [kind |-> "error", of |-> Rethrown(e)]]
  /\ epc' = [epc EXCEPT ![c] = "threw"]
  /\ UNCHANGED <<images, appVars, resolveVars, compileVars, docx, imageCounter, issued>>

NextExtract ==
  \E c \in Calls :
    \/ StartExtract(c)
    \/ ConvertImage(c)
    \/ DecodeResolves(c)
    \/ DecodeRejects(c)

SpecExtract == InitExtract /\ [][NextExtract]_vars

-----------------------------------------------------------------------------
(* Claims about convertDocxToMd *)

AssetLog(i) == Log(<<"Asset detected: Image #">> \o Decimal(i), "success")

FinalSuccessLog == Log(<<"Base Markdown generated successfully.">>, "success")

IsAssetLog(l) == StartsWith(l.msg, <<"Asset detected: Image #">>)

\* C7: in every call, whatever the other calls do in between, the i-th image
\* the callback is called for gets the number i, and the call logs exactly one
\* entry per number, in that order.
C7_PerCallNumbering ==
  \A c \in Calls :
    /\ issued[c] = [i \in 1..Len(issued[c]) |-> i]
    /\ SelectSeq(elogs[c], IsAssetLog) = [i \in 1..Len(issued[c]) |-> AssetLog(i)]

\* C7 witness: two calls are decoding at the same time, the second one has
\* numbered two images and the first one one.
C7_Witness ==
  /\ epc[1] = "decoding" /\ epc[2] = "decoding"
  /\ issued[1] = <<1>>
  /\ issued[2] = <<1, 2>>

FigurePath(n) == <<FigureWord>> \o Decimal(n) \o <<PngWord>>

Occurrences(t, part) ==
  Cardinality({i \in 0..(Len(t) - Len(part)) : SubSeq(t, i + 1, i + Len(part)) = part})

\* C8 as stated: the markdown returned for a document whose images are written
\* as src="..." or as ![alt](...) holds images/figure_n.png for every number n
\* issued and no placeholder; with one image it holds images/figure_1.png once.
C8_PlaceholdersRewritten ==
  \A c \in Calls :
    epc[c] = "returned" =>
      /\ \A k \in 1..Len(issued[c]) : Contains(eout[c].of, FigurePath(issued[c][k]))
      /\ Occurrences(eout[c].of, <<PlaceholderWord>>) = 0
      /\ Len(issued[c]) = 1 => Occurrences(eout[c].of, FigurePath(1)) = 1

EscapableChars == {"_", "(", ")", "[", "]", "\"", "'", ".", "-"}

\* t without the backslashes that stand immediately before an escapable character
RECURSIVE WithoutEscapes(_, _)
WithoutEscapes(t, i) ==
  IF i > Len(t) THEN <<>>
  ELSE IF t[i] = "\\" /\ i < Len(t) /\ FirstChar(t[i + 1]) \in EscapableChars
    THEN WithoutEscapes(t, i + 1)
  ELSE <<t[i]>> \o WithoutEscapes(t, i + 1)

\* C9: the markdown returned is the text after the placeholder rewrite without
\* the backslashes that immediately precede one of _ ( ) [ ] " ' . - and with
\* every other character in place; for a document without images that text is
\* the text of the document.
C9_EscapeCleanup ==
  \A c \in Calls :
    epc[c] = "returned" =>
      /\ eout[c].of =
           WithoutEscapes(RewritePlaceholders(Render(docx[c].body, issued[c])), 1)
      /\ NImages(docx[c].body) = 0 => eout[c].of = WithoutEscapes(docx[c].body, 1)

\* C9 witness: a text with a backslash before n and a backslash before _ was
\* returned with the first one kept and the second one removed.
C9_Witness ==
  /\ epc[1] = "returned"
  /\ docx[1].body = <<"\\", "n", "\\", "_">>
  /\ eout[1].of = <<"\\", "n", "_">>

IsErrorLog(l) == l.level = "error"

\* C10: when the decoder rejects, the call logs exactly one error entry,
\* rejects with the decoder's reason itself, returns no markdown and does not
\* log the final success entry.
C10_DecodeFailureIsFatal ==
  \A c \in Calls :
    /\ rejection[c] # NoError <=> epc[c] = "threw"
    /\ epc[c] = "threw" =>
         /\ eout[c].kind = "error"
         /\ eout[c].of = rejection[c]
         /\ Len(SelectSeq(elogs[c], IsErrorLog)) = 1
         /\ \A i \in 1..Len(elogs[c]) : elogs[c][i] # FinalSuccessLog

\* C10 witness: the decoder rejected with a value that is no Error after the
\* call had numbered an image.
C10_Witness ==
  \E c \in Calls :
    /\ epc[c] = "threw"
    /\ rejection[c].kind = "string"
    /\ Len(issued[c]) >= 1

\* a backslash stands immediately before one of _ ( ) [ ] " ' . -
HasEscape(t) ==
  \E i \in 1..(Len(t) - 1) : t[i] = "\\" /\ FirstChar(t[i + 1]) \in EscapableChars

\* two backslashes in a row stand immediately before one of these characters
HasDoubleEscape(t) ==
  \E i \in 1..(Len(t) - 2) :
    t[i] = "\\" /\ t[i + 1] = "\\" /\ FirstChar(t[i + 2]) \in EscapableChars

-----------------------------------------------------------------------------
(* App: the texts, the lexer and the whole token loop *)

\* a markdown text is a sequence of lines; marked.lexer gives one block token
\* per line: a heading, a paragraph holding one image, or a paragraph of text
LineToken(line) ==
  CASE line = "# T" -> Token("heading", 1, <<"T">>, NoChildren, <<>>)
    [] line = "![](a)" ->
         Token("paragraph", 0, <<line>>, Children(<<Inline("image", <<>>, <<"a">>)>>), <<>>)
    [] OTHER ->
         Token("paragraph", 0, <<line>>, Children(<<Inline("text", <<line>>, Undefined)>>),
               <<>>)

Lexer(text) == [i \in 1..Len(text) |-> LineToken(text[i])]

\* switch (token.type): the blocks and the log entries one token gives
TokenCase(v, m, token) ==
  CASE token.type = "heading" -> [blocks |-> <<HeadingBlock(token)>>, logs |-> <<>>]
    [] token.type = "paragraph" -> ParagraphCase(v, m, token)
    [] token.type = "list" -> [blocks |-> ListBlocks(token), logs |-> <<>>]
    [] token.type = "code" -> [blocks |-> <<CodeBlock(token)>>, logs |-> <<>>]
    [] token.type = "hr" -> [blocks |-> <<RuleBlock>>, logs |-> <<>>]
    [] OTHER -> [blocks |-> DefaultBlocks(token), logs |-> <<>>]

\* for (const token of tokens)
RECURSIVE TokenLoop(_, _, _)
TokenLoop(v, m, toks) ==
  IF toks = <<>> THEN [blocks |-> <<>>, logs |-> <<>>]
  ELSE LET first == TokenCase(v, m, Head(toks))
           rest == TokenLoop(v, m, Tail(toks))
       IN [blocks |-> Push(first.blocks, rest.blocks), logs |-> first.logs \o rest.logs]

\* convertToDocx from its first line to the await of Packer.toBlob: the
\* document handed to the packer and the onLog calls made
ConvertToDocxCall(v, m, markdown) ==
  [doc |-> TokenLoop(v, m, Lexer(markdown)).blocks,
   logs |-> <<Log(<<"Initializing DOCX engine...">>, "info")>>
              \o TokenLoop(v, m, Lexer(markdown)).logs
              \o <<Log(<<"Finalizing DOCX binary data...">>, "info")>>]

\* await of a promise that rejects, in a function without try: the caller's
\* promise rejects with the same reason
Uncaught(e) == e

-----------------------------------------------------------------------------
(* App: polishMarkdown *)

\* how ai.models.generateContent may settle: a response with a text, with an
\* empty text, without text, or a rejection
Responses ==
  { [kind |-> "fulfilled", text |-> <<"# T">>, reason |-> NoError],
    [kind |-> "fulfilled", text |-> <<>>, reason |-> NoError],
    [kind |-> "fulfilled", text |-> Undefined, reason |-> NoError],
    [kind |-> "rejected", text |-> Undefined,
     reason |-> [kind |-> "Error", message |-> <<"quota">>]] }

PolishWithoutCatch(content, response) ==
  IF response.kind = "rejected" THEN [kind |-> "error", of |-> response.reason]
  ELSE [kind |-> "value", of |-> IF Truthy(response.text) THEN response.text ELSE content]

\* try { ... return response.text || content } catch (error) { return content }
polishMarkdown(content, response) ==
  IF response.kind = "rejected" THEN [kind |-> "value", of |-> content]
  ELSE [kind |-> "value", of |-> IF Truthy(response.text) THEN response.text ELSE content]

-----------------------------------------------------------------------------
(* App: startConversion, from one suspension point to the next *)

\* the files the user picks for the source input, by the mode of the page
MdTexts == { <<"![](a)">> }

DocxBodies == { <<"<image>", "\\", "_">> }

\* the files the user picks for the asset library, by their pathKey
AssetKeys == { <<"a">> }

\* images.forEach((val, key) => { if (val.arrayBuffer) imgBuffers.set(key, val.arrayBuffer) })
ImgBuffers(m) == SelectSeq(m, LAMBDA e : e.val # Undefined)

\* next.set(pathKey, ...): a key already in the map keeps its place
MapSet(m, k, v) ==
  IF Has(m, k)
    THEN [i \in 1..Len(m) |-> IF m[i].key = k THEN [key |-> k, val |-> v] ELSE m[i]]
    ELSE Append(m, [key |-> k, val |-> v])

ErrorText(e) == IF e.kind = "Error" THEN e.message ELSE <<"Unknown error">>

FailureEntryAsWarning(e) == Log(<<"Failure: ">> \o ErrorText(e), "warning")

\* addLog(`Failure: ${error instanceof Error ? error.message : 'Unknown error'}`, "error")
FailureEntry(e) == Log(<<"Failure: ">> \o ErrorText(e), "error")

SuccessEntry == Log(<<"Success: Output generated and downloaded.">>, "success")

\* what one stretch of startConversion leaves behind: the status, the log
\* entries added, lastOutput, the downloadFile calls and the call's own record
Stretch(st, entries, out, dl, run) ==
  [status |-> st, logs |-> entries, lastOutput |-> out, downloads |-> dl, run |-> run]

\* lines 145-149: the catch block
CatchBlock(run, out, entries, e) ==
  Stretch("ERROR", entries \o <<FailureEntry(e)>>, out, <<>>,
          [run EXCEPT !.pc = "done", !.caught = e, !.final = "ERROR"])

\* lines 114-117 and 132-135: setStatus(PARSING), addLog, polishMarkdown(...)
AskPolisher(run, out, entries, content, msg) ==
  Stretch("PARSING", entries \o <<Log(msg, "info")>>, out, <<>>,
          [run EXCEPT !.pc = "polishing", !.text = content,
                      !.steps = @ \o <<"polish:start">>, !.final = "PARSING"])

GenerateDocxCompilingFirst(run, out, entries, content) ==
  Stretch("GENERATING",
          entries \o ConvertToDocxCall(variant, ImgBuffers(run.assets), content).logs,
          out, <<>>,
          [run EXCEPT !.pc = "packing", !.text = content,
                      !.steps = @ \o <<"compile", "tokenize", "encode:start">>,
                      !.final = "GENERATING"])

\* lines 120-124: setStatus(GENERATING), imgBuffers, convertToDocx up to its await
GenerateDocx(run, out, entries, content) ==
  Stretch("GENERATING",
          entries \o ConvertToDocxCall(variant, ImgBuffers(run.assets), content).logs,
          out, <<>>,
          [run EXCEPT !.pc = "packing", !.text = content,
                      !.steps = @ \o <<"tokenize", "compile", "encode:start">>,
                      !.final = "GENERATING"])

\* lines 138-144: setLastOutput, new Blob, downloadFile, setStatus(COMPLETED), addLog
DeliverMarkdown(run, entries, markdown) ==
  Stretch("COMPLETED", entries \o <<SuccessEntry>>, Given(markdown),
          <<[kind |-> "md", of |-> markdown]>>,
          [run EXCEPT !.pc = "done", !.text = markdown,
                      !.handed = Given([kind |-> "md", of |-> markdown]),
                      !.steps = @ \o <<"return">>, !.final = "COMPLETED"])

DeliverDocxLeavingStatus(run, out, entries, doc) ==
  Stretch(status, entries \o <<SuccessEntry>>, out, <<[kind |-> "blob", of |-> doc]>>,
          [run EXCEPT !.pc = "done", !.handed = Given([kind |-> "blob", of |-> doc])])

\* lines 125 and 143-144: downloadFile(blob), setStatus(COMPLETED), addLog
DeliverDocx(run, out, entries, doc) ==
  Stretch("COMPLETED", entries \o <<SuccessEntry>>, out,
          <<[kind |-> "blob", of |-> doc]>>,
          [run EXCEPT !.pc = "done", !.handed = Given([kind |-> "blob", of |-> doc]),
                      !.final = "COMPLETED"])

\* the state updates of one stretch of call r
Apply(r, res) ==
  /\ status' = res.status
  /\ appLogs' = appLogs \o res.logs
  /\ lastOutput' = res.lastOutput
  /\ downloads' = downloads \o res.downloads
  /\ conversions' = [conversions EXCEPT ![r] = res.run]

\* lines 129-130 and mdConverter lines 8-33: setStatus(GENERATING), convertDocxToMd
\* up to its await
StartExtraction(run, out, entries) ==
  Stretch("GENERATING",
          entries \o <<Log(<<"Analyzing Word structure and identifying assets...">>, "info")>>,
          out, <<>>,
          [run EXCEPT !.pc = "decoding", !.steps = @ \o <<"decode:start">>,
                      !.final = "GENERATING"])

\* a step of the pipeline of call r is over
Ended(run, step, how) == [run EXCEPT !.steps = @ \o <<step>>, !.settled = how]

Fulfilled(x) == [kind |-> "fulfilled", of |-> x]

Rejected(e) == [kind |-> "rejected", of |-> e]

-----------------------------------------------------------------------------
(* App: the handlers *)

Modes == {"MD_TO_DOCX", "DOCX_TO_MD"}

\* the page before any file is chosen: the mode and the AI switch as the user
\* left them (toggleMode resets everything else)
InitApp ==
  /\ images = <<>>
  /\ ResolverIdle
  /\ variant \in Variants
  /\ tokens = <<>>
  /\ ti = 1
  /\ sections = <<>>
  /\ logs = <<>>
  /\ cpc = "off"
  /\ outcome = Pending
  /\ ExtractorIdle
  /\ mode \in Modes
  /\ isAiEnabled \in BOOLEAN
  /\ sourceFile = NoSource
  /\ status = "IDLE"
  /\ appLogs = <<>>
  /\ lastOutput = Absent
  /\ downloads = <<>>
  /\ reader = Absent
  /\ imgReaders = <<>>
  /\ conversions = [r \in Runs |-> NoRun]
  /\ events = 0

\* lines 46-66: handleFileUpload starts a FileReader; onload closes over mode
HandleFileUpload ==
  /\ events < MaxEvents
  /\ ~reader.defined
  /\ \E body \in (IF mode = "MD_TO_DOCX" THEN MdTexts ELSE DocxBodies) :
       reader' = Given([mode |-> mode, body |-> body])
  /\ events' = events + 1
  /\ UNCHANGED <<images, resolveVars, compileVars, extractVars, mode, sourceFile,
                 isAiEnabled, status, appLogs, lastOutput, downloads, imgReaders,
                 conversions>>

\* lines 51-59: reader.onload
ReaderOnload ==
  /\ reader.defined
  /\ sourceFile' =
       IF reader.of.mode = "MD_TO_DOCX"
         THEN [present |-> TRUE, content |-> Given(reader.of.body), arrayBuffer |-> Absent]
         ELSE [present |-> TRUE, content |-> Absent, arrayBuffer |-> Given(reader.of.body)]
  /\ appLogs' = Append(appLogs, Log(<<"loaded">>, "success"))
  /\ reader' = Absent
  /\ UNCHANGED <<images, resolveVars, compileVars, extractVars, mode, isAiEnabled, status,
                 lastOutput, downloads, imgReaders, conversions, events>>

\* lines 68-99: handleImageUpload with one file; the input is rendered in
\* MD_TO_DOCX mode only (line 249)
HandleImageUpload ==
  /\ events < MaxEvents
  /\ mode = "MD_TO_DOCX"
  /\ imgReaders = <<>>
  /\ \E k \in AssetKeys : imgReaders' = Append(imgReaders, k)
  /\ appLogs' = Append(appLogs, Log(<<"Scanning 1 files...">>, "info"))
  /\ events' = events + 1
  /\ UNCHANGED <<images, resolveVars, compileVars, extractVars, mode, sourceFile,
                 isAiEnabled, status, lastOutput, downloads, reader, conversions>>

\* lines 81-94: reader.onload of an asset
ImageReaderOnload ==
  /\ \E i \in 1..Len(imgReaders) :
       /\ images' = MapSet(images, imgReaders[i], BlobOf(imgReaders[i]))
       /\ imgReaders' = SubSeq(imgReaders, 1, i - 1) \o Drop(imgReaders, i)
  /\ appLogs' = Append(appLogs,
       Log(<<"Successfully processed 1 assets from the selected location.">>, "success"))
  /\ UNCHANGED <<resolveVars, compileVars, extractVars, mode, sourceFile, isAiEnabled,
                 status, lastOutput, downloads, reader, conversions, events>>

\* line 204: onClick={() => setIsAiEnabled(!isAiEnabled)}
ToggleAi ==
  /\ events < MaxEvents
  /\ isAiEnabled' = ~isAiEnabled
  /\ events' = events + 1
  /\ UNCHANGED <<images, resolveVars, compileVars, extractVars, mode, sourceFile, status,
                 appLogs, lastOutput, downloads, reader, imgReaders, conversions>>

\* lines 177-183
ResetState ==
  /\ sourceFile' = NoSource
  /\ images' = <<>>
  /\ appLogs' = <<>>
  /\ lastOutput' = Absent
  /\ status' = "IDLE"

reset ==
  /\ events < MaxEvents
  /\ ResetState
  /\ events' = events + 1
  /\ UNCHANGED <<resolveVars, compileVars, extractVars, mode, isAiEnabled, downloads,
                 reader, imgReaders, conversions>>

\* lines 172-175
toggleMode ==
  /\ events < MaxEvents
  /\ mode' = IF mode = "MD_TO_DOCX" THEN "DOCX_TO_MD" ELSE "MD_TO_DOCX"
  /\ ResetState
  /\ events' = events + 1
  /\ UNCHANGED <<resolveVars, compileVars, extractVars, isAiEnabled, downloads, reader,
                 imgReaders, conversions>>

\* line 295: disabled={!sourceFile || status === ConversionStatus.GENERATING}
ButtonEnabled == sourceFile.present /\ status # "GENERATING"

\* lines 101-130: a click on the convert button, up to the first await (or to
\* the catch block when the buffer is missing); the call closes over the
\* mode, sourceFile, isAiEnabled and images of the render it belongs to
startConversion(r) ==
  /\ events < MaxEvents
  /\ conversions[r].pc = "unused"
  /\ \A q \in 1..(r - 1) : conversions[q].pc # "unused"
  /\ ButtonEnabled
  /\ events' = events + 1
  /\ LET run == [NoRun EXCEPT !.mode = mode, !.ai = isAiEnabled, !.source = sourceFile,
                              !.assets = images]
         content == IF sourceFile.content.defined /\ Truthy(sourceFile.content.of)
                      THEN sourceFile.content.of ELSE <<>>
         entries == <<Log(IF mode = "MD_TO_DOCX" THEN <<"Initiating MD to Word pipeline...">>
                                                 ELSE <<"Initiating Word to MD pipeline...">>,
                          "info")>>
     IN Apply(r,
          IF mode = "MD_TO_DOCX"
            THEN IF isAiEnabled
                   THEN AskPolisher(run, Absent, entries, content,
                                    <<"AI Polishing enabled. Thinking...">>)
                   ELSE GenerateDocx(run, Absent, entries, content)
          ELSE IF ~sourceFile.arrayBuffer.defined
            THEN CatchBlock(run, Absent, entries,
                            [kind |-> "Error", message |-> <<"File buffer missing.">>])
          ELSE StartExtraction(run, Absent, entries))
  /\ UNCHANGED <<images, resolveVars, compileVars, extractVars, mode, sourceFile,
                 isAiEnabled, reader, imgReaders>>

\* polishMarkdown settles; lines 117-124 or 135-144
PolishSettles(r) ==
  /\ conversions[r].pc = "polishing"
  /\ \E response \in Responses :
       LET p == polishMarkdown(conversions[r].text, response)
           run == [Ended(conversions[r], "polish:end",
                         IF p.kind = "error" THEN Rejected(p.of) ELSE Fulfilled(p.of))
                     EXCEPT !.response = response]
       IN Apply(r,
            IF p.kind = "error" THEN CatchBlock(run, lastOutput, <<>>, p.of)
            ELSE IF run.mode = "MD_TO_DOCX" THEN GenerateDocx(run, lastOutput, <<>>, p.of)
            ELSE DeliverMarkdown(run, <<>>, p.of))
  /\ UNCHANGED <<images, resolveVars, compileVars, extractVars, mode, sourceFile,
                 isAiEnabled, reader, imgReaders, events>>

\* Packer.toBlob fulfils: convertToDocx returns the blob; lines 124-125, 143-144
EncoderFulfils(r) ==
  /\ conversions[r].pc = "packing"
  /\ \E doc \in {ConvertToDocxCall(variant, ImgBuffers(conversions[r].assets),
                                    conversions[r].text).doc} :
       Apply(r, DeliverDocx(Ended(conversions[r], "encode:end", Fulfilled(doc)), lastOutput,
                            <<>>, doc))
  /\ UNCHANGED <<images, resolveVars, compileVars, extractVars, mode, sourceFile,
                 isAiEnabled, reader, imgReaders, events>>

\* Packer.toBlob rejects: convertToDocx has no catch; lines 124, 145-149
EncoderRejects(r) ==
  /\ conversions[r].pc = "packing"
  /\ \E e \in EncodeErrors :
       Apply(r, CatchBlock(Ended(conversions[r], "encode:end", Rejected(e)), lastOutput, <<>>,
                           Uncaught(e)))
  /\ UNCHANGED <<images, resolveVars, compileVars, extractVars, mode, sourceFile,
                 isAiEnabled, reader, imgReaders, events>>

\* mdConverter lines 23-29: mammoth calls convertImage for the next image
ImageCallback(r) ==
  /\ conversions[r].pc = "decoding"
  /\ conversions[r].issued < NImages(conversions[r].source.arrayBuffer.of)
  /\ appLogs' = Append(appLogs,
       Log(<<"Asset detected: Image #">> \o Decimal(conversions[r].issued + 1), "success"))
  /\ conversions' = [conversions EXCEPT ![r].issued = @ + 1]
  /\ UNCHANGED <<images, resolveVars, compileVars, extractVars, mode, sourceFile,
                 isAiEnabled, status, lastOutput, downloads, reader, imgReaders, events>>

\* mammoth fulfils: mdConverter lines 33-49, then lines 130-144
DecoderFulfils(r) ==
  /\ conversions[r].pc = "decoding"
  /\ conversions[r].issued = NImages(conversions[r].source.arrayBuffer.of)
  /\ \E value \in {Render(conversions[r].source.arrayBuffer.of,
                           [i \in 1..conversions[r].issued |-> i])} :
     \* mdConverter lines 40-46, one replace after the other
     \E m1 \in {ReplacePlaceholders(value, AttributePrefix, AttributeSuffix)} :
     \E m2 \in {ReplacePlaceholders(m1, EmptyAltPrefix, EmptyAltSuffix)} :
     \E m3 \in {Unescape(m2, PunctuationChars)} :
     \E m4 \in {Unescape(m3, {"."})} :
     \E markdown \in {Unescape(m4, {"-"})} :
       LET run == [Ended(conversions[r], "decode:end", Fulfilled(value))
                     EXCEPT !.steps = @ \o <<"postprocess">>]
           entries == << Log(<<"Refining document structure...">>, "info"),
                         Log(<<"Base Markdown generated successfully.">>, "success") >>
       IN Apply(r,
            IF run.ai
              THEN AskPolisher(run, lastOutput, entries, markdown,
                               <<"AI Enhancing generated Markdown...">>)
              ELSE DeliverMarkdown(run, entries, markdown))
  /\ UNCHANGED <<images, resolveVars, compileVars, extractVars, mode, sourceFile,
                 isAiEnabled, reader, imgReaders, events>>

\* mammoth rejects: mdConverter lines 50-53, then lines 145-149
DecoderRejects(r) ==
  /\ conversions[r].pc = "decoding"
  /\ \E e \in DecodeErrors :
       Apply(r, CatchBlock(Ended(conversions[r], "decode:end", Rejected(e)), lastOutput,
                           <<FailureLog(e)>>, Rethrown(e)))
  /\ UNCHANGED <<images, resolveVars, compileVars, extractVars, mode, sourceFile,
                 isAiEnabled, reader, imgReaders, events>>

\* one step of a conversion that was started
ConversionStep(r) ==
  \/ PolishSettles(r)
  \/ EncoderFulfils(r)
  \/ EncoderRejects(r)
  \/ ImageCallback(r)
  \/ DecoderFulfils(r)
  \/ DecoderRejects(r)

NextApp ==
  \/ HandleFileUpload
  \/ ReaderOnload
  \/ HandleImageUpload
  \/ ImageReaderOnload
  \/ ToggleAi
  \/ reset
  \/ toggleMode
  \/ \E r \in Runs :
       \/ startConversion(r)
       \/ ConversionStep(r)

SpecApp == InitApp /\ [][NextApp]_vars

-----------------------------------------------------------------------------
(* App: conversions of a source that is loaded, every external call settling *)

\* what reader.onload of handleFileUpload leaves in sourceFile
LoadedSources ==
  {[present |-> TRUE, content |-> Given(t), arrayBuffer |-> Absent] : t \in MdTexts}
    \cup {[present |-> TRUE, content |-> Absent, arrayBuffer |-> Given(b)] : b \in DocxBodies}

\* the page once a source file is loaded, with or without an asset; the switches
\* and the uploads that led here count as two user events
InitLoaded ==
  /\ images \in {<<>>, <<[key |-> <<"a">>, val |-> BlobOf(<<"a">>)]>>}
  /\ ResolverIdle
  /\ variant \in Variants
  /\ tokens = <<>>
  /\ ti = 1
  /\ sections = <<>>
  /\ logs = <<>>
  /\ cpc = "off"
  /\ outcome = Pending
  /\ ExtractorIdle
  /\ mode \in Modes
  /\ isAiEnabled \in BOOLEAN
  /\ sourceFile \in LoadedSources
  /\ status = "IDLE"
  /\ appLogs = <<Log(<<"loaded">>, "success")>>
  /\ lastOutput = Absent
  /\ downloads = <<>>
  /\ reader = Absent
  /\ imgReaders = <<>>
  /\ conversions = [r \in Runs |-> NoRun]
  /\ events = 2

NextConversion ==
  \/ reset
  \/ \E r \in Runs :
       \/ startConversion(r)
       \/ ConversionStep(r)

\* every external call settles and the event loop runs the continuation
SpecConversion ==
  InitLoaded /\ [][NextConversion]_vars /\ WF_vars(\E r \in Runs : ConversionStep(r))

-----------------------------------------------------------------------------
(* Claims about the App and the polisher *)

Last(q) == q[Len(q)]

\* call r has just left the await of convertToDocx through a rejection
EncodeFailed(run) ==
  /\ run.pc = "done"
  /\ run.steps # <<>>
  /\ Last(run.steps) = "encode:end"
  /\ run.settled.kind = "rejected"

\* C11: whenever the packer rejects while a conversion awaits convertToDocx,
\* that step adds exactly one log entry, of level error, carrying the message
\* of the packer's error; the catch block of startConversion receives the very
\* value the packer rejected with; nothing is downloaded, the call hands out
\* no blob and the status becomes ERROR.
C11_EncodeFailureIsFatal ==
  [][\A r \in Runs :
       (conversions[r].pc = "packing" /\ EncodeFailed(conversions'[r])) =>
          /\ conversions'[r].settled.of \in EncodeErrors
          /\ conversions'[r].caught = conversions'[r].settled.of
          /\ appLogs' = Append(appLogs,
               Log(<<"Failure: ">> \o ErrorText(conversions'[r].settled.of), "error"))
          /\ downloads' = downloads
          /\ ~conversions'[r].handed.defined
          /\ status' = "ERROR"]_vars

C11_Witness ==
  \E r \in Runs :
    /\ EncodeFailed(conversions[r])
    /\ conversions[r].caught.kind = "string"
    /\ status = "ERROR"
    /\ Len(appLogs) > 0
    /\ Last(appLogs).level = "error"
    /\ downloads = <<>>

\* the generation call failed: it rejected, or its response has no text
PolishFailed(response) ==
  \/ response.kind = "rejected"
  \/ response.kind = "fulfilled" /\ response.text \in {Undefined, <<>>}

\* C12: whenever polishMarkdown settles, it fulfils; when the generation call
\* failed (rejection, response without text or with an empty text) it fulfils
\* with exactly the text it was given.  The conversion does not enter its
\* catch block and the status does not become ERROR: a markdown source goes
\* on to convertToDocx with that text, an extracted markdown is downloaded.
C12_PolisherFailOpen ==
  [][\A r \in Runs :
       (conversions[r].pc = "polishing" /\ conversions'[r].pc # "polishing") =>
          LET before == conversions[r]
              after == conversions'[r]
          IN /\ after.settled.kind = "fulfilled"
             /\ after.caught = NoError
             /\ status' # "ERROR"
             /\ after.final # "ERROR"
             /\ after.text = after.settled.of
             /\ PolishFailed(after.response) => after.settled.of = before.text
             /\ IF before.mode = "MD_TO_DOCX"
                  THEN after.pc = "packing"
                  ELSE /\ after.pc = "done"
                       /\ after.handed = Given([kind |-> "md", of |-> after.text])
                       /\ lastOutput' = Given(after.text)]_vars

C12_Witness ==
  \E r \in Runs :
    /\ conversions[r].response.kind = "rejected"
    /\ conversions[r].mode = "DOCX_TO_MD"
    /\ conversions[r].pc = "done"
    /\ conversions[r].final = "COMPLETED"
    /\ conversions[r].handed.defined
    /\ conversions[r].handed.of.of =
         PostProcess(Render(conversions[r].source.arrayBuffer.of, <<1>>))

IsPrefix(p, q) == Len(p) <= Len(q) /\ SubSeq(q, 1, Len(p)) = p

\* the steps of one conversion, by direction and AI switch, as the code orders
\* them
Pipeline(m, ai) ==
  IF m = "MD_TO_DOCX"
    THEN (IF ai THEN <<"polish:start", "polish:end">> ELSE <<>>)
           \o <<"tokenize", "compile", "encode:start", "encode:end">>
    ELSE <<"decode:start", "decode:end", "postprocess">>
           \o (IF ai THEN <<"polish:start", "polish:end">> ELSE <<>>)
           \o <<"return">>

\* the external call a conversion is suspended at, by the last step it began
Awaited(run) ==
  CASE run.pc = "polishing" -> "polish:start"
    [] run.pc = "packing" -> "encode:start"
    [] run.pc = "decoding" -> "decode:start"
    [] OTHER -> "none"

\* C13 as stated: in both directions the polisher call starts only after the
\* compile or extract step has finished.
C13_PolishAfterCompileOrExtract ==
  \A r \in Runs :
    \A i \in 1..Len(conversions[r].steps) :
      conversions[r].steps[i] = "polish:start" =>
        \E j \in 1..(i - 1) : conversions[r].steps[j] \in {"compile", "decode:end", "postprocess"}

\* C13, amended: the steps of every conversion happen one after another, each
\* finished before the next begins, in the order of its direction: optional
\* polish, tokenize, compile, encode from markdown to Word; decode,
\* post-process, optional polish, return from Word to markdown.  A conversion
\* is suspended at no other call than the step it began last.
C13_StepsInPipelineOrder ==
  \A r \in Runs :
    LET run == conversions[r]
    IN /\ IsPrefix(run.steps, Pipeline(run.mode, run.ai))
       /\ run.pc \in {"polishing", "packing", "decoding"} => Last(run.steps) = Awaited(run)
       /\ (run.pc = "done" /\ run.final = "COMPLETED") => run.steps = Pipeline(run.mode, run.ai)
       /\ run.pc = "unused" => run.steps = <<>>

C13_Witness ==
  \E r \in Runs :
    /\ conversions[r].mode = "MD_TO_DOCX"
    /\ conversions[r].ai
    /\ conversions[r].pc = "done"
    /\ conversions[r].final = "COMPLETED"
    /\ conversions[r].steps =
         <<"polish:start", "polish:end", "tokenize", "compile", "encode:start", "encode:end">>

InFlight(run) == run.pc \in {"polishing", "packing", "decoding"}

\* something threw inside the try block of the call: an awaited call rejected,
\* or the buffer of the source was missing
Threw(run) ==
  \/ run.settled.kind = "rejected"
  \/ run.mode = "DOCX_TO_MD" /\ ~run.source.arrayBuffer.defined

\* C14: every conversion that was started comes to its end, given that every
\* external call settles; the step that ends it sets the status to COMPLETED or
\* to ERROR; it ends with ERROR exactly when something threw and with COMPLETED
\* exactly when the output was handed to downloadFile; a conversion that has
\* not ended last set READING, PARSING or GENERATING, one that ended did not.
C14_ConversionTerminates ==
  /\ (\E r \in Runs : InFlight(conversions[r]))
       ~> (\A r \in Runs : conversions[r].pc \in {"unused", "done"})
  /\ [][\A r \in Runs :
          (conversions[r].pc # "done" /\ conversions'[r].pc = "done") =>
             /\ status' = conversions'[r].final
             /\ status' \in {"COMPLETED", "ERROR"}]_vars
  /\ [](\A r \in Runs :
          /\ conversions[r].pc = "done" =>
               /\ conversions[r].final \in {"COMPLETED", "ERROR"}
               /\ conversions[r].final = "ERROR" <=> Threw(conversions[r])
               /\ conversions[r].final = "COMPLETED" <=> conversions[r].handed.defined
               /\ conversions[r].handed.defined => Len(downloads) > 0
          /\ InFlight(conversions[r]) =>
               /\ conversions[r].final \in {"PARSING", "GENERATING"}
               /\ ~Threw(conversions[r])
               /\ ~conversions[r].handed.defined)

C14_Witness ==
  /\ \E r \in Runs :
       /\ conversions[r].pc = "done"
       /\ conversions[r].final = "ERROR"
       /\ conversions[r].caught.message = <<"File buffer missing.">>
  /\ status = "ERROR"

\* the conversions that began and have not reached COMPLETED or ERROR
ConversionsInFlight == {r \in Runs : InFlight(conversions[r])}

\* C22 as stated: at most one conversion is in flight at any time; while one
\* is, the polisher's await included, no other startConversion begins.
C22_OneConversionInFlight ==
  Cardinality(ConversionsInFlight) <= 1

\* what reset leaves: no source file, no image, no log entry, no last output,
\* status IDLE
Cleared ==
  /\ sourceFile = NoSource
  /\ images = <<>>
  /\ appLogs = <<>>
  /\ lastOutput = Absent
  /\ status = "IDLE"

\* the step is an upload of the user, the onload of a file reader (counted as
\* the reader of an upload made after the reset) or the start of a conversion
UploadOrStart ==
  \/ reader # reader'
  \/ imgReaders # imgReaders'
  \/ \E r \in Runs : conversions[r].pc = "unused" /\ conversions'[r].pc # "unused"

\* C23 as stated: once reset or toggleMode has cleared them, the source file,
\* the image map, the log list and the last output stay empty and the status
\* stays IDLE until the next upload or startConversion; in particular no
\* conversion that is still in flight writes to any of them.
C23_ResetIsFinal ==
  [][(Cleared /\ ~UploadOrStart) => Cleared']_vars

====
